---------------------------- MODULE Spec2Model ----------------------------
(***************************************************************************)
(* Imaginary-time FDTD relaxation solver (class DirichletSystem of the     *)
(* notebooks "2d free" and "3d columb").                                   *)
(*                                                                         *)
(* Arithmetic.  The solver works on float64 arrays.  The model computes    *)
(* exactly, without rounding: an array is a record                         *)
(*     [nan, qn, qd, w]   standing for   sqrt(qn/qd) * w                   *)
(* with w an integer vector over the grid points, qn/qd a reduced positive *)
(* fraction and gcd(w) = 1 (w = 0 has qn = qd = 1), so that two records    *)
(* are equal exactly when the arrays are.  The square root of the scale    *)
(* is what normalize introduces; every quantity the solver compares        *)
(* (energies, inner products, norms squared) is rational in this form.     *)
(* nan = TRUE is the array numpy produces after 0 * inf: NaN everywhere.   *)
(*                                                                         *)
(* Arrays are objects: heap maps a reference to the array's contents, so   *)
(* that `self.sol_mesh = psi0_grid` (an alias) and `self.sol_mesh -= ...`  *)
(* (an update in place) are told apart from `self.sol_mesh = alpha * ...`  *)
(* (a new array).                                                          *)
(***************************************************************************)
EXTENDS Integers, Sequences, FiniteSets, TLC

\* ------------------------------------------------------------- bounds
\* largest number of time steps of a time domain (time_len)
MaxTimeLen == 4
\* number of solve() calls made on the solver
MaxSolves == 2
\* largest entry of an array's integer vector, and largest numerator or
\* denominator of its scale: runs that leave this range are not followed
MaxAmp == 16
MaxScale == 100000
\* largest number of set_psi0_by_grid calls on one solver
MaxSets == 2

\* ------------------------------------------------------------- integers
Abs(x) == IF x < 0 THEN -x ELSE x

Max(a, b) == IF a >= b THEN a ELSE b

Min(a, b) == IF a <= b THEN a ELSE b

RECURSIVE GCD(_, _)
GCD(a, b) == IF b = 0 THEN Abs(a) ELSE GCD(b, a % Abs(b))

LCM(a, b) == IF a = 0 \/ b = 0 THEN 0 ELSE (Abs(a) \div GCD(a, b)) * Abs(b)

\* the exact square root of a perfect square n >= 0, by bisection on lo..hi
RECURSIVE SqrtIn(_, _, _)
SqrtIn(n, lo, hi) ==
    IF lo >= hi THEN lo
    ELSE LET mid == (lo + hi + 1) \div 2
         IN  IF mid * mid <= n THEN SqrtIn(n, mid, hi) ELSE SqrtIn(n, lo, mid - 1)

ISqrt(n) == SqrtIn(n, 0, Min(n, 46340))

IsSquare(n) == n >= 0 /\ ISqrt(n) * ISqrt(n) = n

\* a fraction n/d (d # 0) in lowest terms with a positive denominator
Frac(n, d) ==
    LET g == GCD(n, d)
        s == IF d < 0 THEN -1 ELSE 1
    IN  <<s * (n \div g), s * (d \div g)>>

RECURSIVE SumSet(_, _)
SumSet(S, f) ==
    IF S = {} THEN 0
    ELSE LET x == CHOOSE y \in S : TRUE IN f[x] + SumSet(S \ {x}, f)

RECURSIVE GcdSet(_, _)
GcdSet(S, f) ==
    IF S = {} THEN 0
    ELSE LET x == CHOOSE y \in S : TRUE IN GCD(f[x], GcdSet(S \ {x}, f))

RECURSIVE LcmSet(_, _)
LcmSet(S, f) ==
    IF S = {} THEN 1
    ELSE LET x == CHOOSE y \in S : TRUE IN LCM(f[x], LcmSet(S \ {x}, f))

RECURSIVE ProdSeq(_)
ProdSeq(s) == IF s = <<>> THEN 1 ELSE Head(s) * ProdSeq(Tail(s))

\* ------------------------------------------------------------- domains
\* class Boundary: start, end, step
Boundary(s, e, st) == [start |-> s, end |-> e, step |-> st]

\* Python's int(a / b) for b > 0: truncation toward zero
IntDiv(a, b) == IF a >= 0 THEN a \div b ELSE -((-a) \div b)

\* int((dom.end - dom.start) / dom.step) + 1
DomLen(dom) == IntDiv(dom.end - dom.start, dom.step) + 1

\* self.vol = np.prod([dom.step for dom in self.spat_dom])
Vol(spat_dom) == ProdSeq([a \in 1..Len(spat_dom) |-> spat_dom[a].step])

\* self.sol_shape: the number of points of every axis
SolShape(spat_dom) == [a \in 1..Len(spat_dom) |-> DomLen(spat_dom[a])]

\* the index tuples of an array of the given shape (indices from 0)
Points(shape) ==
    LET top == CHOOSE m \in {shape[a] : a \in 1..Len(shape)} : \A a \in 1..Len(shape) : shape[a] <= m
    IN  {p \in [1..Len(shape) -> 0..(top - 1)] : \A a \in 1..Len(shape) : p[a] < shape[a]}

\* index 0 or extent-1 along some axis
OnBoundary(p, shape) == \E a \in 1..Len(shape) : p[a] = 0 \/ p[a] = shape[a] - 1


\* ------------------------------------------------------------- arrays
\* Python's None: as a string where the other values are strings
None == "None"

\* Python's None where the other values are numbers, tuples or arrays
Absent == <<>>

\* a float64 scalar: <<n, d>> with d > 0 is n/d; NaN is <<0, 0>>
NaN == <<0, 0>>

IsNaN(x) == x[2] = 0

Dot(u, w) == SumSet(DOMAIN u, [p \in DOMAIN u |-> u[p] * w[p]])

\* the array sqrt(qn/qd) * w in canonical form
Canon(qn, qd, w) ==
    LET g == GcdSet(DOMAIN w, w)
        f == Frac(qn * g * g, qd)
    IN  IF g = 0 THEN [nan |-> FALSE, qn |-> 1, qd |-> 1, w |-> w]
        ELSE [nan |-> FALSE, qn |-> f[1], qd |-> f[2],
              w |-> [p \in DOMAIN w |-> w[p] \div g]]

\* the array sqrt(qn/qd) * (num/den) * w in canonical form, den > 0
Scaled(qn, qd, num, den, w) ==
    LET g == GcdSet(DOMAIN w, w)
        r == Frac(num * g, den)
        f == Frac(qn * r[1] * r[1], qd * r[2] * r[2])
    IN  IF g = 0 \/ num = 0 THEN [nan |-> FALSE, qn |-> 1, qd |-> 1, w |-> [p \in DOMAIN w |-> 0]]
        ELSE [nan |-> FALSE, qn |-> f[1], qd |-> f[2],
              w |-> [p \in DOMAIN w |-> (IF num < 0 THEN -1 ELSE 1) * (w[p] \div g)]]

\* the array that is NaN at every point
NaNArray(P) == [nan |-> TRUE, qn |-> 1, qd |-> 1, w |-> [p \in P |-> 0]]

\* np.zeros(shape)
Zeros(P) == Canon(1, 1, [p \in P |-> 0])

\* the value of an array at a point, as a multiple of sqrt(qn/qd): zero or not
IsZeroAt(f, p) == ~f.nan /\ f.w[p] = 0

\* sum(f * f) of a finite array, a fraction
SumSq(f) == Frac(f.qn * Dot(f.w, f.w), f.qd)

\* DirichletSystem.normalize, 3d notebook: psi / sqrt(sum(psi*psi) * vol).
\* sum = 0 gives nn = inf and psi * inf = 0 * inf = NaN at every point.
normalize3d(psi, vol) ==
    LET W == Dot(psi.w, psi.w)
    IN  IF psi.nan \/ W = 0 THEN NaNArray(DOMAIN psi.w)
        ELSE Canon(1, W * vol, psi.w)

\* DirichletSystem.normalize, 2d notebook: psi / sqrt(sum(psi*psi)), no vol
normalize2d(psi, vol) ==
    LET W == Dot(psi.w, psi.w)
    IN  IF psi.nan \/ W = 0 THEN NaNArray(DOMAIN psi.w)
        ELSE Canon(1, W, psi.w)

normalize(psi, vol, variant) ==
    IF variant = "2d" THEN normalize2d(psi, vol) ELSE normalize3d(psi, vol)

\* the square root of the fraction n/d, d > 0 (exact when n/d is a square)
RatSqrt(n, d) == LET f == Frac(n, d) IN <<ISqrt(f[1]), ISqrt(f[2])>>

RatIsSquare(n, d) == LET f == Frac(n, d) IN IsSquare(f[1]) /\ IsSquare(f[2])

\* one pass of the loop body of _prepare for the prior vec:
\*   inner = np.sum(psi * self.normalize(vec) * self.vol); sol_mesh -= inner * vec
\* With psi = sqrt(q) u, vec = sqrt(qv) wv, normalize(vec) = sqrt(qN) wN:
\*   inner * vec = sqrt(q) * [ (u . wN) * vol * sqrt(qN * qv) ] * wv.
Deflate(psi, vec, vol, variant) ==
    LET N   == normalize(vec, vol, variant)
        rho == RatSqrt(N.qn * vec.qn, N.qd * vec.qd)
        c   == Frac(Dot(psi.w, N.w) * vol * rho[1], rho[2])
    IN  IF psi.nan \/ vec.nan \/ N.nan THEN NaNArray(DOMAIN psi.w)
        ELSE Scaled(psi.qn, psi.qd, 1, c[2],
                    [p \in DOMAIN psi.w |-> c[2] * psi.w[p] - c[1] * vec.w[p]])

\* whether the square root Deflate takes for the prior vec is rational
DeflateExact(vec, vol, variant) ==
    LET N == normalize(vec, vol, variant)
    IN  vec.nan \/ N.nan \/ RatIsSquare(N.qn * vec.qn, N.qd * vec.qd)

\* self.pbc = False, never assigned again
pbc == FALSE

\* a variant of _apply_boundary that sets only index 0 of every axis to 0.0
ApplyBoundaryLowOnly(f, shape, bd_cond) ==
    IF bd_cond = None /\ pbc = FALSE
    THEN Canon(f.qn, f.qd, [p \in DOMAIN f.w |->
                 IF \E a \in 1..Len(shape) : p[a] = 0 THEN 0 ELSE f.w[p]])
    ELSE f

\* _apply_boundary on a finite array: index 0 and l-1 of every axis set to 0.0
\* when bd_cond is None and pbc is False, nothing otherwise
ApplyBoundary(f, shape, bd_cond) ==
    IF bd_cond = None /\ pbc = FALSE
    THEN Canon(f.qn, f.qd, [p \in DOMAIN f.w |-> IF OnBoundary(p, shape) THEN 0 ELSE f.w[p]])
    ELSE f

\* ------------------------------------------------------------- one time step
\* the common denominator of the kinetic term: lcm of 2 * step^2 over the axes
KineDen(spat_dom) ==
    LcmSet(1..Len(spat_dom), [a \in 1..Len(spat_dom) |-> 2 * spat_dom[a].step * spat_dom[a].step])

Shift(p, a, d) == [p EXCEPT ![a] = @ + d]

\* kine[p] * KineDen for the integer vector w.  For every axis i the slice
\* ind1 is 1..l-2 along i and everything along the other axes, and
\*   kine[ind1] += (px[ind2] + px[ind3] - 2 px[ind1]) / (2 step_i^2);
\* the terms under `if self.pbc` never run (pbc is False).
Kine(w, p, shape, spat_dom) ==
    LET H  == KineDen(spat_dom)
        Ax == {a \in 1..Len(shape) : 0 < p[a] /\ p[a] < shape[a] - 1}
    IN  SumSet(Ax, [a \in Ax |->
            (H \div (2 * spat_dom[a].step * spat_dom[a].step))
              * (w[Shift(p, a, -1)] + w[Shift(p, a, 1)] - 2 * w[p])])

\* energy_before = (sum(pot_grid*px*px) - sum(kine*px)) / sum(px*px);
\* the scale of px cancels; 0/0 and NaN give NaN
Energy(px, pot_grid, shape, spat_dom) ==
    LET P == DOMAIN px.w
        H == KineDen(spat_dom)
        S == Dot(px.w, px.w)
        V == SumSet(P, [p \in P |-> pot_grid[p] * px.w[p] * px.w[p]])
        K == SumSet(P, [p \in P |-> Kine(px.w, p, shape, spat_dom) * px.w[p]])
    IN  IF px.nan \/ S = 0 THEN NaN ELSE Frac(H * V - K, H * S)

\* beta = 1/(1 + dt*pot/2), alpha = (1 - dt*pot/2) * beta;
\* sol_mesh = alpha * sol_mesh; sol_mesh += dt * beta * kine      (a new array)
\* With D[p] = 2 + dt*pot[p] (> 0 for the potentials of the model):
\*   new[p] = ((2 - dt*pot[p]) * w[p] + 2*dt*Kine[p]/KineDen) / D[p].
Update(psi, pot_grid, dt, shape, spat_dom) ==
    LET P  == DOMAIN psi.w
        H  == KineDen(spat_dom)
        D  == [p \in P |-> 2 + dt * pot_grid[p]]
        DL == LcmSet(P, D)
        z  == [p \in P |-> (DL \div D[p]) *
                 (H * (2 - dt * pot_grid[p]) * psi.w[p]
                    + 2 * dt * Kine(psi.w, p, shape, spat_dom))]
    IN  IF psi.nan THEN psi
        ELSE Scaled(psi.qn, psi.qd, 1, H * DL, z)

\* nn2 = np.sum(psi * psi) * self.vol, the square of the value logged
Norm2(psi, vol) ==
    IF psi.nan THEN NaN ELSE Frac(psi.qn * Dot(psi.w, psi.w) * vol, psi.qd)

\* a variant of t_len that ignores max_iter
TLenIgnoringMaxIter(max_iter, time_len) == time_len

\* if self.max_iter is not None and self.max_iter < self.time_len: t_len = max_iter
TLen(max_iter, time_len) ==
    IF max_iter # Absent /\ max_iter[1] < time_len THEN max_iter[1] ELSE time_len

\* the guard of the update and the renormalization: if n + 1 < self.time_len
DoUpdate(k, time_len) == k + 1 < time_len

\* a variant of the stop test without np.abs: 1 - eprev/ecur < tol
ErrorBelowSigned(eprev, ecur, tol) ==
    /\ ~IsNaN(eprev) /\ ~IsNaN(ecur)
    /\ ecur[1] # 0
    /\ LET r == Frac(eprev[1] * ecur[2], eprev[2] * ecur[1])
       IN  (r[2] - r[1]) * tol[2] < tol[1] * r[2]

\* error = np.abs(1 - energy_series[n-1] / energy_before); error < stop_tol.
\* NaN compares false; energy_before = 0 gives inf or NaN, which is not below.
\* With eprev = a/b, ecur = c/d and tol = s/t, all denominators positive:
\*   |1 - (a/b)/(c/d)| < s/t  iff  t*|bc - ad| < s*|bc|  iff  |bc - ad| <= (s*|bc| - 1) div t
ErrorBelow(eprev, ecur, tol) ==
    /\ ~IsNaN(eprev) /\ ~IsNaN(ecur)
    /\ ecur[1] # 0
    /\ Abs(eprev[2] * ecur[1] - eprev[1] * ecur[2])
         <= (tol[1] * Abs(eprev[2] * ecur[1]) - 1) \div tol[2]

\* if n > 0 and self.stop_tol is not None: ... if error < self.stop_tol: break
StopNow(k, stop_tol, series) ==
    /\ k > 0
    /\ stop_tol # Absent
    /\ ErrorBelow(series[k], series[k + 1], stop_tol)

\* ------------------------------------------------------------- state
VARIABLES
    variant,        \* which notebook's class: "2d" or "3d" (they differ in normalize)
    time_dom,       \* self.time_dom
    spat_dom,       \* self.spat_dom
    pot,            \* self.pot, the potential function
    bd_cond,        \* self.bd_cond
    max_iter,       \* self.max_iter
    stop_tol,       \* self.stop_tol
    priors,         \* self.priors: a list of references to the caller's arrays
    spaces,         \* self.spaces: the coordinates of every axis, Absent before _init_mesh
    pot_calls,      \* how many times self.pot was evaluated at every grid point
    heap,           \* the contents of every array object
    held,           \* the references the caller holds
    sol_mesh,       \* self.sol_mesh: a reference
    pot_grid,       \* self.pot_grid, Absent before _initialize
    energy_series,  \* self.energy_series, Absent before the first solve
    counter,        \* self.counter
    logs,           \* self.logs: the squares of the norms appended
    pc,             \* where the caller or solve stands
    n,              \* solve: the loop variable
    px,             \* solve: the local reference px, 0 outside an iteration
    t_len,          \* solve: the local t_len
    solves,         \* the number of solve() calls begun
    iters,          \* the number of loop iterations the last solve() has begun
    psi0_arg,       \* the contents of the array last passed to set_psi0_by_grid
    got_energy,     \* what get_energy() last returned to the caller
    got_solution,   \* what get_solution() last returned: the reference and its contents then
    fault,          \* the exception the last call raised, None if it returned
    bd_cond2,       \* a second solver on the same grid: its bd_cond
    priors2,        \* the second solver's priors
    sol_mesh2,      \* the second solver's sol_mesh while it is a caller's array, else 0
    pc2             \* where the second solver stands; "absent" when there is none

conf == <<variant, time_dom, spat_dom, pot, bd_cond, max_iter, stop_tol, priors, spaces>>

other == <<bd_cond2, priors2, sol_mesh2, pc2>>

vars == <<conf, heap, held, sol_mesh, pot_grid, energy_series, counter, logs,
          pc, n, px, t_len, solves, iters, psi0_arg, got_energy, got_solution,
          fault, other, pot_calls>>

\* self.time_len = int((time_dom.end - time_dom.start) / time_dom.step) + 1
time_len == DomLen(time_dom)

vol == Vol(spat_dom)

sol_shape == SolShape(spat_dom)

Grid == Points(sol_shape)

\* references: 1..3 are arrays the caller made, the others arrays the solver makes
CallerRefs == 1..3

Refs == 1..7

Range(s) == {s[i] : i \in DOMAIN s}

\* a variant of the coordinates that steps by dom.step from dom.start
CoordByStep(dom, i) == <<dom.start + i * dom.step, 1>>

\* self.spaces[a][i] = np.linspace(start, end, len)[i], a fraction
Coord(dom, i) ==
    IF DomLen(dom) = 1 THEN <<dom.start, 1>>
    ELSE Frac(dom.start * (DomLen(dom) - 1) + i * (dom.end - dom.start), DomLen(dom) - 1)

\* self.spaces = [np.linspace(dom.start, dom.end, int(...) + 1) for dom in spat_dom]
Spaces(doms) ==
    [a \in 1..Len(doms) |-> [i \in 1..DomLen(doms[a]) |-> Coord(doms[a], i - 1)]]

\* the potential functions of the model, at the coordinates x of a grid point:
\* "zero" is the 2d notebook's pot; "wall" is 1 from x[1] >= 3 on and 0 before
PotValue(f, x) ==
    IF f = "wall" /\ x[1][1] >= 3 * x[1][2] THEN 1 ELSE 0

\* pot_grid[i] = self.pot(*xi) for every grid point
\* a variant of the sampling that stores a zero field whatever the potential
SamplePotZero(f, doms) ==
    [p \in Points(SolShape(doms)) |-> 0]

SamplePot(f, doms) ==
    [p \in Points(SolShape(doms)) |->
        PotValue(f, [a \in 1..Len(doms) |-> Coord(doms[a], p[a])])]

\* the arrays of the heap are within the range the model follows
InRange(h) ==
    \A r \in DOMAIN h :
        /\ h[r].qn <= MaxScale /\ h[r].qd <= MaxScale
        /\ \A p \in DOMAIN h[r].w : Abs(h[r].w[p]) <= MaxAmp

\* the arrays an array reference may reach from the solver or the caller
Live(hd, prs, sol, loc) == hd \cup Range(prs) \cup {sol, loc}

\* arrays nothing refers to any more are reclaimed
Collect(h, live) == [r \in Refs |-> IF r \in live THEN h[r] ELSE Zeros(Grid)]

\* the array object a numpy expression allocates
NewRef(live) == CHOOSE r \in Refs \ live : \A r2 \in Refs \ live : r <= r2

\* _prepare: for vec in self.priors: inner = ...; self.sol_mesh -= inner * vec
RECURSIVE PrepareFrom(_, _, _, _, _, _)
PrepareFrom(h, sol, prs, i, v, vr) ==
    IF i > Len(prs) THEN h
    ELSE PrepareFrom([h EXCEPT ![sol] = Deflate(h[sol], h[prs[i]], v, vr)],
                     sol, prs, i + 1, v, vr)

Prepare(h, sol, prs, v, vr) == PrepareFrom(h, sol, prs, 1, v, vr)

\* ------------------------------------------------------------- inputs
\* the grids of the model: 4 points with step 2; 3 x 3 points with steps 2
GridChoices ==
    { <<Boundary(0, 6, 2)>>, <<Boundary(0, 4, 2), Boundary(0, 4, 2)>> }

\* 5 points with step 2
LongGrid == <<Boundary(0, 8, 2)>>

\* time domains with step 4 and 1..MaxTimeLen steps
TimeChoices == {Boundary(0, 4 * (L - 1), 4) : L \in 1..MaxTimeLen}

TolChoices == {Absent, <<1, 10>>}

MaxIterChoices == {Absent} \cup {<<m>> : m \in -1..MaxTimeLen}

\* the constructor's arguments.  Two families: every loop control (time
\* domain, max_iter, stop_tol) on the 5-point grid without priors, and every
\* other grid, boundary flag, potential and prior list on the longest time domain.
Configs ==
    [variant : {"3d"}, time_dom : TimeChoices, spat_dom : {LongGrid},
     pot : {"zero", "wall"}, bd_cond : {None, "periodic"},
     max_iter : MaxIterChoices, stop_tol : TolChoices, priors : {<<>>}]
    \cup
    [variant : {"2d", "3d"}, time_dom : {Boundary(0, 4 * (MaxTimeLen - 1), 4)},
     spat_dom : GridChoices, pot : {"zero", "wall"}, bd_cond : {None, "periodic"},
     max_iter : {Absent}, stop_tol : TolChoices,
     priors : {<<>>, <<2>>, <<3>>, <<2, 3>>}]

\* the integer vector with the given values at the listed points, 0 elsewhere
VecOf(P, vals) == [p \in P |-> IF p \in DOMAIN vals THEN vals[p] ELSE 0]

\* the caller's arrays on a grid: 1 a seed with values on the boundary, 2 an
\* eigenvector of the step as a solve returns it (normalized), 3 an array
\* that is not normalized and has values on the boundary
CallerArray(r, doms, vr) ==
    LET P == Points(SolShape(doms))
    IN  IF doms = LongGrid
        THEN Canon(1, 1, VecOf(P, (<<0>> :> 2) @@ (<<1>> :> 1) @@ (<<2>> :> 1) @@ (<<3>> :> 2) @@ (<<4>> :> 1)))
        ELSE IF Len(doms) = 1
        THEN CASE r = 1 -> Canon(1, 1, VecOf(P, (<<0>> :> 1) @@ (<<1>> :> 2) @@ (<<2>> :> 1) @@ (<<3>> :> 3)))
               [] r = 2 -> normalize(Canon(1, 1, VecOf(P, (<<1>> :> 1) @@ (<<2>> :> 1))), Vol(doms), vr)
               [] OTHER -> Canon(IF vr = "2d" THEN 2 ELSE 1, 1, VecOf(P, (<<0>> :> 1) @@ (<<1>> :> 1)))
        ELSE CASE r = 1 -> Canon(1, 1, VecOf(P, (<<1, 1>> :> 2) @@ (<<0, 1>> :> 1) @@ (<<2, 2>> :> 1)))
               [] r = 2 -> normalize(Canon(1, 1, VecOf(P, (<<1, 1>> :> 1))), Vol(doms), vr)
               [] OTHER -> Canon(1, 1, VecOf(P, (<<1, 1>> :> 1) @@ (<<0, 0>> :> 1)
                                                   @@ (<<0, 1>> :> 1) @@ (<<1, 0>> :> 1)))

\* ------------------------------------------------------------- operations
\* DirichletSystem(pot, time_dom, spatial_doms, bd_cond, max_iter, stop_tol,
\* prior_vecs): __init__ and _init_mesh; sol_mesh = np.zeros(shape)
Init ==
    /\ \E c \in Configs :
          /\ variant = c.variant
          /\ time_dom = c.time_dom
          /\ spat_dom = c.spat_dom
          /\ pot = c.pot
          /\ bd_cond = c.bd_cond
          /\ max_iter = c.max_iter
          /\ stop_tol = c.stop_tol
          /\ priors = c.priors
    /\ spaces = Spaces(spat_dom)
    /\ pot_calls = [p \in Grid |-> 0]
    /\ heap = [r \in Refs |-> IF r \in {1} \cup Range(priors)
                               THEN CallerArray(r, spat_dom, variant)
                               ELSE Zeros(Points(SolShape(spat_dom)))]
    /\ held = {1} \cup Range(priors)
    /\ sol_mesh = 4
    /\ pot_grid = Absent
    /\ energy_series = Absent
    /\ counter = 0
    /\ logs = <<>>
    /\ pc = "new"
    /\ n = 0
    /\ px = 0
    /\ t_len = 0
    /\ solves = 0
    /\ iters = 0
    /\ psi0_arg = Absent
    /\ got_energy = Absent
    /\ got_solution = Absent
    /\ fault = None
    /\ bd_cond2 = None
    /\ priors2 = <<>>
    /\ sol_mesh2 = 0
    /\ pc2 = "absent"

Idle == pc \in {"new", "ready", "returned"}

\* set_psi0_by_grid(psi0_grid) -> _initialize: sol_mesh = psi0_grid (the
\* caller's array itself), _apply_boundary on it, then the potential sampled.
\* The caller passes a finite array; with several priors it is none of them,
\* and the norm of a prior stays rational when the array is a prior.
SetPsi0(r) ==
    /\ Idle
    /\ \A p \in Grid : pot_calls[p] < MaxSets
    /\ r \in held
    /\ ~heap[r].nan
    /\ r \in Range(priors) =>
          /\ Len(priors) = 1
          /\ DeflateExact(ApplyBoundary(heap[r], sol_shape, bd_cond), vol, variant)
    /\ psi0_arg' = heap[r]
    /\ sol_mesh' = r
    /\ heap' = Collect([heap EXCEPT ![r] = ApplyBoundary(heap[r], sol_shape, bd_cond)],
                       Live(held, priors, r, r))
    /\ InRange(heap')
    /\ pot_grid' = SamplePot(pot, spat_dom)
    /\ pot_calls' = [p \in Grid |-> pot_calls[p] + 1]
    /\ pc' = "ready"
    /\ fault' = None
    /\ UNCHANGED <<conf, other, got_solution, held, energy_series, counter, logs, n, px, t_len, solves, iters,
                   got_energy>>

\* an array with one more point along the first axis than the grid has
Misshaped(doms) ==
    LET shape == SolShape(doms)
        P     == Points([shape EXCEPT ![1] = @ + 1])
    IN  Canon(1, 1, [p \in P |-> 1 + p[1]])

\* set_psi0_by_grid with an array of another shape, as the first initial
\* condition: nothing compares psi0_grid.shape with sol_shape; _apply_boundary
\* writes index 0 and index l-1 of sol_shape, which the longer array has
SetPsi0Misshaped ==
    /\ Idle
    /\ \A p \in Grid : pot_calls[p] < MaxSets
    /\ solves = 0
    /\ LET new == NewRef(Live(held, priors, sol_mesh, sol_mesh))
           arr == Misshaped(spat_dom)
       IN  /\ psi0_arg' = arr
           /\ sol_mesh' = new
           /\ heap' = Collect([heap EXCEPT ![new] = ApplyBoundary(arr, sol_shape, bd_cond)],
                              Live(held, priors, new, new))
    /\ pot_grid' = SamplePot(pot, spat_dom)
    /\ pot_calls' = [p \in Grid |-> pot_calls[p] + 1]
    /\ pc' = "ready"
    /\ fault' = None
    /\ UNCHANGED <<conf, other, got_solution, held, energy_series, counter, logs, n, px,
                   t_len, solves, iters, got_energy>>

\* solve() on a solution of another shape: with priors `psi * normalize(vec)`
\* in the first _prepare, without priors `kine[ind1] += term` in iteration 0
\* cannot broadcast and raises ValueError
SolveMisshaped ==
    /\ pc \in {"ready", "returned"}
    /\ DOMAIN heap[sol_mesh].w # Grid
    /\ solves < MaxSolves
    /\ solves' = solves + 1
    /\ iters' = IF priors = <<>> THEN 1 ELSE 0
    /\ energy_series' = [i \in 1..time_len |-> <<0, 1>>]
    /\ fault' = "ValueError"
    /\ UNCHANGED <<conf, other, pot_calls, got_solution, heap, held, sol_mesh, pot_grid, counter, logs,
                   pc, n, px, t_len, psi0_arg, got_energy>>

\* solve() before any set_psi0_by_grid: energy_series is made, then
\* self.pot_grid does not exist
SolveUninitialized ==
    /\ pc = "new"
    /\ solves < MaxSolves
    /\ solves' = solves + 1
    /\ iters' = 0
    /\ energy_series' = [i \in 1..time_len |-> <<0, 1>>]
    /\ fault' = "AttributeError"
    /\ UNCHANGED <<conf, other, pot_calls, got_solution, heap, held, sol_mesh, pot_grid, counter, logs, pc, n, px,
                   t_len, psi0_arg, got_energy>>

\* solve(), up to the loop: energy_series = np.zeros(time_len), alpha and beta,
\* _prepare(), t_len
SolveBegin ==
    /\ pc \in {"ready", "returned"}
    /\ DOMAIN heap[sol_mesh].w = Grid
    /\ solves < MaxSolves
    /\ solves' = solves + 1
    /\ iters' = 0
    /\ energy_series' = [i \in 1..time_len |-> <<0, 1>>]
    /\ heap' = Prepare(heap, sol_mesh, priors, vol, variant)
    /\ InRange(heap')
    /\ t_len' = TLen(max_iter, time_len)
    /\ n' = 0
    /\ pc' = "loop"
    /\ fault' = None
    /\ UNCHANGED <<conf, other, pot_calls, got_solution, held, sol_mesh, pot_grid, counter, logs, px, psi0_arg,
                   got_energy>>

\* for n in range(0, t_len): counter = n; px = self.sol_mesh; self._prepare()
\* a variant of the start of an iteration that leaves out the deflation
LoopEnterNoPrepare ==
    /\ pc = "loop"
    /\ n < t_len
    /\ counter' = n
    /\ iters' = iters + 1
    /\ px' = sol_mesh
    /\ heap' = Collect(heap, Live(held, priors, sol_mesh, sol_mesh))
    /\ InRange(heap')
    /\ pc' = "prepared"
    /\ UNCHANGED <<conf, other, pot_calls, got_solution, held, sol_mesh, pot_grid, energy_series, logs, n, t_len,
                   solves, psi0_arg, got_energy, fault>>

LoopEnter ==
    /\ pc = "loop"
    /\ n < t_len
    /\ counter' = n
    /\ iters' = iters + 1
    /\ px' = sol_mesh
    /\ heap' = Collect(Prepare(heap, sol_mesh, priors, vol, variant),
                       Live(held, priors, sol_mesh, sol_mesh))
    /\ InRange(heap')
    /\ pc' = "prepared"
    /\ UNCHANGED <<conf, other, pot_calls, got_solution, held, sol_mesh, pot_grid, energy_series, logs, n, t_len,
                   solves, psi0_arg, got_energy, fault>>

\* the range is exhausted: solve returns
LoopExit ==
    /\ pc = "loop"
    /\ ~(n < t_len)
    /\ px' = 0
    /\ heap' = Collect(heap, Live(held, priors, sol_mesh, sol_mesh))
    /\ pc' = "returned"
    /\ UNCHANGED <<conf, other, pot_calls, got_solution, held, sol_mesh, pot_grid, energy_series, counter, logs, n,
                   t_len, solves, iters, psi0_arg, got_energy, fault>>

\* the kinetic term and energy_series[n] = energy_before
RecordEnergy ==
    /\ pc = "prepared"
    /\ energy_series' = [energy_series EXCEPT
                           ![n + 1] = Energy(heap[px], pot_grid, sol_shape, spat_dom)]
    /\ pc' = "recorded"
    /\ UNCHANGED <<conf, other, pot_calls, got_solution, heap, held, sol_mesh, pot_grid, counter, logs, n, px, t_len,
                   solves, iters, psi0_arg, got_energy, fault>>

\* if n + 1 < self.time_len: sol_mesh = alpha * sol_mesh; sol_mesh += dt*beta*kine
StepUpdate ==
    /\ pc = "recorded"
    /\ DoUpdate(n, time_len)
    /\ LET new == NewRef(Live(held, priors, sol_mesh, px))
       IN  /\ heap' = [heap EXCEPT ![new] =
                         Update(heap[sol_mesh], pot_grid, time_dom.step, sol_shape, spat_dom)]
           /\ sol_mesh' = new
    /\ InRange(heap')
    /\ pc' = "updated"
    /\ UNCHANGED <<conf, other, pot_calls, got_solution, held, pot_grid, energy_series, counter, logs, n, px, t_len,
                   solves, iters, psi0_arg, got_energy, fault>>

\* n + 1 = self.time_len: the update and the renormalization are skipped
StepSkip ==
    /\ pc = "recorded"
    /\ ~DoUpdate(n, time_len)
    /\ pc' = "check"
    /\ UNCHANGED <<conf, other, pot_calls, got_solution, heap, held, sol_mesh, pot_grid, energy_series, counter, logs,
                   n, px, t_len, solves, iters, psi0_arg, got_energy, fault>>

\* nn2 = sum(psi*psi)*vol; logs.append(sqrt(nn2)); sol_mesh = normalize(sol_mesh)
StepNormalize ==
    /\ pc = "updated"
    /\ logs' = Append(logs, Norm2(heap[sol_mesh], vol))
    /\ LET new == NewRef(Live(held, priors, sol_mesh, px))
       IN  /\ heap' = Collect([heap EXCEPT ![new] = normalize(heap[sol_mesh], vol, variant)],
                              Live(held, priors, new, px))
           /\ sol_mesh' = new
    /\ InRange(heap')
    /\ pc' = "check"
    /\ UNCHANGED <<conf, other, pot_calls, got_solution, held, pot_grid, energy_series, counter, n, px, t_len, solves, iters,
                   psi0_arg, got_energy, fault>>

\* if n > 0 and stop_tol is not None and error < stop_tol: break
StopCheck ==
    /\ pc = "check"
    /\ IF StopNow(n, stop_tol, energy_series)
       THEN /\ pc' = "returned"
            /\ px' = 0
            /\ heap' = Collect(heap, Live(held, priors, sol_mesh, sol_mesh))
            /\ n' = n
       ELSE /\ pc' = "loop"
            /\ n' = n + 1
            /\ UNCHANGED <<px, heap>>
    /\ UNCHANGED <<conf, other, pot_calls, got_solution, held, sol_mesh, pot_grid, energy_series, counter, logs,
                   t_len, solves, iters, psi0_arg, got_energy, fault>>

\* get_solution(): return self.spaces, self.sol_mesh (the array itself).
\* The caller keeps at most one array of the solver.
GetSolution ==
    /\ pc = "returned"
    /\ sol_mesh \notin held
    /\ held \subseteq CallerRefs
    /\ held' = held \cup {sol_mesh}
    /\ got_solution' = [ref |-> sol_mesh, field |-> heap[sol_mesh]]
    /\ UNCHANGED <<conf, other, pot_calls, heap, sol_mesh, pot_grid, energy_series, counter, logs, pc,
                   n, px, t_len, solves, iters, psi0_arg, got_energy, fault>>

\* get_energy(): return self.energy_series
GetEnergy ==
    /\ Idle
    /\ energy_series # Absent
    /\ got_energy' = energy_series
    /\ UNCHANGED <<conf, other, pot_calls, got_solution, heap, held, sol_mesh, pot_grid, energy_series, counter,
                   logs, pc, n, px, t_len, solves, iters, psi0_arg, fault>>

Next ==
    \/ \E r \in Refs : SetPsi0(r)
    \/ SetPsi0Misshaped
    \/ SolveUninitialized
    \/ SolveMisshaped
    \/ SolveBegin
    \/ LoopEnter
    \/ LoopExit
    \/ RecordEnergy
    \/ StepUpdate
    \/ StepSkip
    \/ StepNormalize
    \/ StopCheck
    \/ GetSolution
    \/ GetEnergy

Spec == Init /\ [][Next]_vars

\* ------------------------------------------------------------- construction
\* largest end - start and largest step of an axis
MaxSpan == 5
MaxStep == 3

\* the axes (start, end, step) with end >= start and step > 0
AxisSpecs ==
    {Boundary(st, st + d, h) : st \in -1..1, d \in 0..MaxSpan, h \in 1..MaxStep}

\* spatial domains of one axis, and of two axes
AxisConfigs ==
    {<<b>> : b \in AxisSpecs} \cup {<<b, Boundary(0, 3, 2)>> : b \in AxisSpecs}

\* DirichletSystem(...) entered with its arguments, before _init_mesh
InitAxis ==
    /\ spat_dom \in AxisConfigs
    /\ variant = "3d"
    /\ time_dom = Boundary(0, 0, 4)
    /\ pot = "zero"
    /\ bd_cond = None
    /\ max_iter = Absent
    /\ stop_tol = Absent
    /\ priors = <<>>
    /\ spaces = Absent
    /\ pot_calls = [p \in Grid |-> 0]
    /\ heap = [r \in Refs |-> Zeros(Points(<<1>>))]
    /\ held = {}
    /\ sol_mesh = 0
    /\ pot_grid = Absent
    /\ energy_series = Absent
    /\ counter = 0
    /\ logs = <<>>
    /\ pc = "constructing"
    /\ n = 0
    /\ px = 0
    /\ t_len = 0
    /\ solves = 0
    /\ iters = 0
    /\ psi0_arg = Absent
    /\ got_energy = Absent
    /\ got_solution = Absent
    /\ fault = None
    /\ bd_cond2 = None
    /\ priors2 = <<>>
    /\ sol_mesh2 = 0
    /\ pc2 = "absent"

\* _init_mesh and the rest of __init__: spaces by np.linspace, sol_mesh =
\* np.zeros of the shape of the mesh; no test is made on the axes
InitMesh ==
    /\ pc = "constructing"
    /\ spaces' = Spaces(spat_dom)
    /\ sol_mesh' = 4
    /\ heap' = [r \in Refs |-> Zeros(Points(SolShape(spat_dom)))]
    /\ pc' = "new"
    /\ fault' = None
    /\ UNCHANGED <<variant, time_dom, spat_dom, pot, bd_cond, max_iter, stop_tol, priors,
                   other, pot_calls, held, pot_grid, energy_series, counter, logs, n, px, t_len,
                   solves, iters, psi0_arg, got_energy, got_solution>>

NextAxis == InitMesh

SpecAxis == InitAxis /\ [][NextAxis]_vars

\* ------------------------------------------------------------- two solvers
\* number of time steps of the time domain the two solvers share
TwoTimeLen == 2

\* sys1 and sys2 of the notebook: two solvers of one class on the same grid,
\* time domain and potential, each with its own bd_cond and priors
TwoConfigs ==
    [variant : {"2d", "3d"}, time_dom : {Boundary(0, 4 * (TwoTimeLen - 1), 4)},
     spat_dom : GridChoices, pot : {"zero", "wall"}, bd_cond : {None, "periodic"},
     max_iter : {Absent}, stop_tol : {Absent}, priors : {<<>>, <<2>>},
     bd_cond2 : {None, "periodic"}, priors2 : {<<>>, <<2>>, <<3>>}]

InitTwo ==
    /\ \E c \in TwoConfigs :
          /\ variant = c.variant
          /\ time_dom = c.time_dom
          /\ spat_dom = c.spat_dom
          /\ pot = c.pot
          /\ bd_cond = c.bd_cond
          /\ max_iter = c.max_iter
          /\ stop_tol = c.stop_tol
          /\ priors = c.priors
          /\ bd_cond2 = c.bd_cond2
          /\ priors2 = c.priors2
    /\ spaces = Spaces(spat_dom)
    /\ pot_calls = [p \in Grid |-> 0]
    /\ heap = [r \in Refs |-> IF r \in {1} \cup Range(priors) \cup Range(priors2)
                               THEN CallerArray(r, spat_dom, variant)
                               ELSE Zeros(Points(SolShape(spat_dom)))]
    /\ held = {1} \cup Range(priors) \cup Range(priors2)
    /\ sol_mesh = 4
    /\ pot_grid = Absent
    /\ energy_series = Absent
    /\ counter = 0
    /\ logs = <<>>
    /\ pc = "new"
    /\ n = 0
    /\ px = 0
    /\ t_len = 0
    /\ solves = 0
    /\ iters = 0
    /\ psi0_arg = Absent
    /\ got_energy = Absent
    /\ got_solution = Absent
    /\ fault = None
    /\ sol_mesh2 = 0
    /\ pc2 = "new"

\* sys2.set_psi0_by_grid(psi0) between two calls of the first solver: the
\* second solver keeps the same array psi0 (array 1) and applies its boundary
SetPsi0Other ==
    /\ Idle
    /\ pc2 \in {"new", "ready", "returned"}
    /\ ~heap[1].nan
    /\ sol_mesh2' = 1
    /\ heap' = [heap EXCEPT ![1] = ApplyBoundary(heap[1], sol_shape, bd_cond2)]
    /\ InRange(heap')
    /\ pc2' = "ready"
    /\ UNCHANGED <<conf, pot_calls, bd_cond2, priors2, held, sol_mesh, pot_grid, energy_series,
                   counter, logs, pc, n, px, t_len, solves, iters, psi0_arg,
                   got_energy, got_solution, fault>>

\* sys2.solve() between two calls of the first solver, as far as the caller's
\* array goes: _prepare() before the loop and _prepare() in iteration 0 work
\* in place on it; the first update gives the second solver an array of its own
SolveOther ==
    /\ Idle
    /\ pc2 = "ready"
    /\ heap' = Prepare(Prepare(heap, sol_mesh2, priors2, vol, variant),
                       sol_mesh2, priors2, vol, variant)
    /\ InRange(heap')
    /\ sol_mesh2' = IF DoUpdate(0, time_len) THEN 0 ELSE sol_mesh2
    /\ pc2' = "returned"
    /\ UNCHANGED <<conf, pot_calls, bd_cond2, priors2, held, sol_mesh, pot_grid, energy_series,
                   counter, logs, pc, n, px, t_len, solves, iters, psi0_arg,
                   got_energy, got_solution, fault>>

NextTwo ==
    \/ SetPsi0(1)
    \/ SolveBegin
    \/ LoopEnter
    \/ LoopExit
    \/ RecordEnergy
    \/ StepUpdate
    \/ StepSkip
    \/ StepNormalize
    \/ StopCheck
    \/ SetPsi0Other
    \/ SolveOther

SpecTwo == InitTwo /\ [][NextTwo]_vars

\* solve() of the first solver run alone, as a function of the field f it
\* holds at the start of iteration k and of the energies recorded so far
AlonePrepare(f) ==
    Prepare([r \in Refs |-> IF r = 1 THEN f ELSE CallerArray(r, spat_dom, variant)],
            1, priors, vol, variant)[1]

RECURSIVE AloneLoop(_, _, _)
AloneLoop(k, f, series) ==
    IF k >= TLen(max_iter, time_len) THEN [sol |-> f, series |-> series]
    ELSE LET g  == AlonePrepare(f)
             s2 == [series EXCEPT ![k + 1] = Energy(g, pot_grid, sol_shape, spat_dom)]
             h  == IF DoUpdate(k, time_len)
                   THEN normalize(Update(g, pot_grid, time_dom.step, sol_shape, spat_dom),
                                  vol, variant)
                   ELSE g
         IN  IF StopNow(k, stop_tol, s2) THEN [sol |-> h, series |-> s2]
             ELSE AloneLoop(k + 1, h, s2)

\* set_psi0_by_grid(psi0) and solve() of the first solver alone on array 1
AloneRun ==
    AloneLoop(0, AlonePrepare(ApplyBoundary(CallerArray(1, spat_dom, variant),
                                            sol_shape, bd_cond)),
              [i \in 1..time_len |-> <<0, 1>>])

\* ------------------------------------------------------------- model sanity
\* every square root the deflation takes is rational, so the arithmetic is exact
PriorsExact == \A i \in DOMAIN priors : DeflateExact(heap[priors[i]], vol, variant)

\* ------------------------------------------------------------- claims
InSolve == pc \in {"loop", "prepared", "recorded", "updated", "check"}

\* min(time_len, max_iter), or time_len when max_iter is absent
MinCap == IF max_iter = Absent THEN time_len ELSE Min(time_len, max_iter[1])

\* C1 as stated: solve executes at most min(time_len, max_iter) iterations
\* (time_len when max_iter is absent) for max_iter any integer, returns
\* normally at that cap, and executes exactly time_len iterations when both
\* stop_tol and max_iter are absent.
C1_AsStated ==
    (InSolve \/ pc = "returned") =>
        /\ iters <= MinCap
        /\ pc = "returned" => fault = None
        /\ (pc = "returned" /\ stop_tol = Absent /\ max_iter = Absent) => iters = time_len

\* C1 amended: solve executes at most max(0, min(time_len, max_iter))
\* iterations (a max_iter below 1 gives no iteration), never passes the end
\* of its range, returns normally at that cap, and executes exactly time_len
\* iterations when both stop_tol and max_iter are absent.
C1_IterationCap ==
    (InSolve \/ pc = "returned") =>
        /\ iters <= Max(0, MinCap)
        /\ n <= Max(0, MinCap)
        /\ pc = "returned" => fault = None
        /\ (pc = "returned" /\ stop_tol = Absent /\ max_iter = Absent) => iters = time_len

\* |1 - a/b| < tol for floats a, b given as fractions: false when a or b is
\* NaN or b is 0, else decided on the fraction a/b
RelChangeBelow(a, b, tol) ==
    /\ a[2] # 0 /\ b[2] # 0 /\ b[1] # 0
    /\ LET r == Frac(a[1] * b[2], a[2] * b[1])
           d == Abs(r[2] - r[1])
       IN  d * tol[2] < tol[1] * r[2]

\* iteration j > 0 (an index from 0) meets the stop tolerance
Qualifies(j) ==
    /\ stop_tol # Absent
    /\ RelChangeBelow(energy_series[j], energy_series[j + 1], stop_tol)

\* a state of C1's case: solve returned at a cap that max_iter set, with a
\* tolerance configured that the last iteration did not meet
C1_Witness ==
    /\ pc = "returned" /\ fault = None
    /\ max_iter # Absent /\ max_iter[1] < time_len
    /\ stop_tol # Absent
    /\ iters = max_iter[1] /\ iters >= 2
    /\ ~Qualifies(iters - 1)

\* C2: with a stop tolerance, solve halts at the first iteration n > 0 whose
\* relative energy change |1 - E[n-1]/E[n]| is below it and runs no iteration
\* after it; nothing is checked at n = 0; solve never halts before the cap at
\* an iteration where the condition is false; with stop_tol None it never
\* halts early.
C2_StopAtFirstBelow ==
    /\ InSolve =>
          \* every iteration checked so far was passed because it did not qualify
          \A j \in 1..(n - 1) : ~Qualifies(j)
    /\ pc = "returned" =>
          /\ \A j \in 1..(iters - 2) : ~Qualifies(j)
          /\ iters < Max(0, MinCap) => (iters >= 2 /\ Qualifies(iters - 1))
          /\ stop_tol = Absent => iters = Max(0, MinCap)

\* a state of C2's case: solve halted before the cap at iteration 2, the first
\* one below the tolerance, after iteration 1 was checked and was not below it
C2_Witness ==
    /\ pc = "returned"
    /\ iters = 3 /\ iters < MinCap
    /\ ~Qualifies(1) /\ Qualifies(2)

\* the index of the final scheduled iteration
FinalIndex == MinCap - 1

\* C3 as stated: on the final scheduled iteration (index min(time_len,
\* max_iter) - 1) the energy is recorded, the update and the renormalization
\* are skipped, and the solution is left as the field the energy was taken of.
C3_FinalStepSkipsUpdate ==
    (pc = "check" /\ n = FinalIndex) =>
        /\ sol_mesh = px
        /\ energy_series[n + 1] = Energy(heap[sol_mesh], pot_grid, sol_shape, spat_dom)

\* C4 as stated: when solve has returned after k iterations, get_energy()
\* holds exactly k entries, entry i the energy recorded in iteration i.
C4_SeriesLengthIsIterations ==
    pc = "returned" => Len(energy_series) = iters

\* the value of array f at point p equals the value of array g at p
ValueEq(f, g, p) ==
    /\ ~f.nan /\ ~g.nan
    /\ (f.w[p] = 0) = (g.w[p] = 0)
    /\ (f.w[p] > 0) = (g.w[p] > 0)
    /\ LET a == Frac(f.qn, g.qn)
           b == Frac(g.qd, f.qd)
       IN  f.w[p] # 0 => a[1] * b[1] * f.w[p] * f.w[p] = a[2] * b[2] * g.w[p] * g.w[p]

\* C5 as stated: in Dirichlet mode, whatever the initial condition and the
\* priors, after every update step of solve the (finite) solution is zero at
\* every grid point whose index along some axis is 0 or extent-1.
C5_BoundaryZeroAfterUpdate ==
    (bd_cond = None /\ pc = "updated" /\ ~heap[sol_mesh].nan) =>
        \A p \in Grid : OnBoundary(p, sol_shape) => heap[sol_mesh].w[p] = 0

\* C6: immediately after set_psi0_by_grid on a solver with the default
\* boundary condition, the solution is zero at every grid point whose index
\* along some axis is 0 or extent-1 and equals the supplied value elsewhere.
C6_BoundaryForcedOnIngestion ==
    (pc = "ready" /\ bd_cond = None) =>
        \A p \in Grid :
            IF OnBoundary(p, sol_shape)
            THEN IsZeroAt(heap[sol_mesh], p)
            ELSE ValueEq(heap[sol_mesh], psi0_arg, p)

\* a state of C6's case: set_psi0_by_grid was given an array with a value on
\* the boundary and a value inside, on a solver with the default condition
C6_Witness ==
    /\ pc = "ready" /\ bd_cond = None
    /\ \E p \in Grid : OnBoundary(p, sol_shape) /\ psi0_arg.w[p] # 0
    /\ \E p \in Grid : ~OnBoundary(p, sol_shape) /\ psi0_arg.w[p] # 0

\* C7 as stated: after the renormalization of a non-final step the (finite)
\* solution has sum(solution^2) * vol = 1.
C7_UnitWeightedNorm ==
    (pc = "check" /\ n + 1 < time_len /\ ~heap[sol_mesh].nan) =>
        LET f == heap[sol_mesh]
        IN  Frac(f.qn * Dot(f.w, f.w) * vol, f.qd) = <<1, 1>>

\* C8 as stated: immediately after _prepare, with a non-empty prior list, the
\* (finite) solution has inner product zero with every prior of the list.
C8_OrthogonalAfterPrepare ==
    ((pc = "prepared" \/ (pc = "loop" /\ n = 0)) /\ priors # <<>>
        /\ ~heap[sol_mesh].nan) =>
        \A i \in DOMAIN priors :
            /\ ~heap[priors[i]].nan
            /\ Dot(heap[sol_mesh].w, heap[priors[i]].w) = 0

\* a prior that solve leaves as it is: a step and a renormalization give it back
Converged(v) ==
    /\ ~v.nan
    /\ pot_grid # Absent
    /\ normalize(Update(v, pot_grid, time_dom.step, sol_shape, spat_dom), vol, variant) = v

\* C9 as stated: with one converged prior v1, from the first deflation of
\* solve on and in the field solve leaves, the inner product of the (finite)
\* solution with v1 stays within a small bound: at most a tenth of the
\* product of the two norms.
C9_StaysOrthogonalToPrior ==
    ((InSolve \/ pc = "returned") /\ Len(priors) = 1 /\ Converged(heap[priors[1]])
        /\ ~heap[sol_mesh].nan) =>
        LET u == heap[sol_mesh].w
            v == heap[priors[1]].w
        IN  100 * Dot(u, v) * Dot(u, v) <= Dot(u, u) * Dot(v, v)

\* C10 as stated: whatever the caller passes as priors and as initial
\* condition, every prior field keeps the values it was constructed with.
C10_PriorsNeverChange ==
    \A i \in DOMAIN priors : heap[priors[i]] = CallerArray(priors[i], spat_dom, variant)

\* C11 as stated: no set_psi0_by_grid or solve changes an array the caller
\* made and supplied, and no later operation of the solver changes the field
\* get_solution handed out.
C11_SolverOwnsItsBuffer ==
    /\ \A r \in held \cap CallerRefs : heap[r] = CallerArray(r, spat_dom, variant)
    /\ got_solution # Absent => heap[got_solution.ref] = got_solution.field

\* C12 as stated: with a second solver initialized from the same array psi0
\* and its calls interleaved with the first solver's in any order, the first
\* solver's energy series and solution after its solve are those of its run
\* alone on psi0.
C12_InstancesIndependent ==
    (pc2 # "absent" /\ pc = "returned" /\ solves = 1) =>
        /\ energy_series = AloneRun.series
        /\ heap[sol_mesh] = AloneRun.sol

\* C13 as stated: set_psi0_by_grid with a field of another shape reports an
\* error, and in every state the solution field has the grid's shape.
C13_ShapeChecked ==
    /\ (psi0_arg # Absent /\ DOMAIN psi0_arg.w # Grid) => fault # None
    /\ DOMAIN heap[sol_mesh].w = Grid

\* an iteration of the running or the last solve produced NaN in the energy
\* estimate or in the solution
NonFinite ==
    \/ heap[sol_mesh].nan
    \/ \E i \in 1..iters : i <= Len(energy_series) /\ IsNaN(energy_series[i])

\* C14 as stated: once an iteration has produced a non-finite energy or
\* solution, solve does not go on to the next iteration and does not return
\* normally: a fault is reported.
C14_NonFiniteIsFault ==
    (pc \in {"loop", "returned"} /\ energy_series # Absent /\ NonFinite) => fault # None

\* floor((end - start) / step) + 1 for end >= start and step > 0
PointCount(dom) == (dom.end - dom.start) \div dom.step + 1

\* construction is over
Built == pc # "constructing" /\ spaces # Absent

C16_UnevenStepRejected ==
    (pc # "constructing"
        /\ \E a \in 1..Len(spat_dom) :
              (spat_dom[a].end - spat_dom[a].start) % spat_dom[a].step # 0)
    => fault # None

\* C17 as stated: over the lifetime of a solver the potential is evaluated
\* exactly once at every grid point: never more than once, and once as soon
\* as a sampled potential field is stored.
C17_PotSampledOnce ==
    \A p \in Grid :
        /\ pot_calls[p] <= 1
        /\ pot_grid # Absent => pot_calls[p] = 1

\* the potential at grid point p, from the coordinates of the built axes
PotAt(p) == PotValue(pot, [a \in 1..Len(spat_dom) |-> spaces[a][p[a] + 1]])

\* C18: a solve before any set_psi0_by_grid fails with an error and performs
\* no iteration; whenever a solve is iterating, or has iterated, the stored
\* potential field is the one an earlier set_psi0_by_grid sampled from pot
\* at every grid point.
C18_SolveNeedsInitialization ==
    /\ pc = "new" =>
          /\ pot_grid = Absent
          /\ iters = 0
          /\ solves > 0 => fault = "AttributeError"
    /\ (InSolve \/ iters > 0) =>
          /\ pot_grid # Absent
          /\ \A p \in Grid : pot_calls[p] >= 1 /\ pot_grid[p] = PotAt(p)

\* a state of C18's case: an iteration of a solve has recorded its energy
\* under a potential that is not zero everywhere
C18_Witness ==
    /\ pc = "recorded"
    /\ iters >= 1
    /\ \E p \in Grid : pot_grid[p] # 0

\* the periodic extrapolation along axis a holds in array f:
\* f[-1] = f[0] + (1/3) f[-2] - (1/3) f[1] on every line along the axis
Extrapolated(f, a, shape) ==
    \A p \in DOMAIN f.w :
        p[a] = shape[a] - 1 =>
            3 * f.w[p] = 3 * f.w[[p EXCEPT ![a] = 0]]
                           + f.w[[p EXCEPT ![a] = shape[a] - 2]]
                           - f.w[[p EXCEPT ![a] = 1]]

\* C19 as stated: the bd_cond flag selects the boundary mode for all axes;
\* with the default the solution ingested by set_psi0_by_grid is zero on
\* the boundary, and with a non-default flag the zero-reset is skipped and
\* the periodic extrapolation has been applied to the solution the kinetic
\* term and the energy of an iteration were computed from.
C19_ModeSelectedByFlag ==
    /\ (bd_cond = None /\ pc = "ready" /\ DOMAIN heap[sol_mesh].w = Grid) =>
          \A p \in Grid : OnBoundary(p, sol_shape) => IsZeroAt(heap[sol_mesh], p)
    /\ (bd_cond # None /\ pc = "recorded" /\ ~heap[px].nan) =>
          Extrapolated(heap[px], Len(sol_shape), sol_shape)

\* C20: deflation against all priors runs once when a solve begins, before
\* iteration 0, and again at the start of every iteration; the energy of an
\* iteration is recorded directly after that deflation, from the deflated
\* solution, with no update or renormalization in between.
C20_DeflateBeforeEnergy ==
    [][ /\ (pc \in {"ready", "returned"} /\ pc' = "loop") =>
              heap'[sol_mesh'] = Prepare(heap, sol_mesh, priors, vol, variant)[sol_mesh]
        /\ (pc = "loop" /\ pc' = "prepared") =>
              /\ px' = sol_mesh'
              /\ heap'[px'] = Prepare(heap, sol_mesh, priors, vol, variant)[sol_mesh]
        /\ (pc # "recorded" /\ pc' = "recorded") =>
              /\ pc = "prepared"
              /\ px' = px /\ heap'[px'] = heap[px]
              /\ energy_series'[n + 1] = Energy(heap[px], pot_grid, sol_shape, spat_dom)
      ]_vars

\* a state of C20's case: the energy of a later iteration has been recorded
\* in a solve with priors, after an update and a renormalization
C20_Witness ==
    /\ pc = "recorded"
    /\ priors # <<>>
    /\ n >= 1
    /\ ~heap[px].nan

\* C21 as stated: in every iteration, once the kinetic term has been
\* accumulated over all axes from the solution px, it is zero at every grid
\* point whose index along any axis is 0 or extent - 1.
C21_KineInteriorOnly ==
    (pc = "recorded" /\ ~heap[px].nan /\ DOMAIN heap[px].w = Grid) =>
        \A p \in Grid :
            OnBoundary(p, sol_shape) => Kine(heap[px].w, p, sol_shape, spat_dom) = 0

\* C22 as stated: when the tolerance is met at iteration n and solve is
\* about to halt, no update or renormalization has been applied since E[n]
\* was recorded: the solution field, the one get_solution returns, is the
\* field px from which E[n] was computed.
C22_HaltIsImmediate ==
    (pc = "check" /\ StopNow(n, stop_tol, energy_series)) =>
        heap[sol_mesh] = heap[px]

\* C23 as stated: on every built axis the spacing between consecutive
\* coordinates is the same everywhere and equals the step of the axis, the
\* value used in the finite-difference divisor and in the volume element.
C23_SpacingIsStep ==
    Built =>
        \A a \in 1..Len(spat_dom) : \A i \in 1..(Len(spaces[a]) - 1) :
            LET lo == spaces[a][i]
                hi == spaces[a][i + 1]
            IN  hi[1] * lo[2] - lo[1] * hi[2] = spat_dom[a].step * lo[2] * hi[2]
=============================================================================
